---------------------------- MODULE Spec2Model ----------------------------
(***************************************************************************)
(* Truth-table generator (src/script.js): the lexer, the shunting-yard     *)
(* parser, the AST builder with sub-expression collection, the two         *)
(* evaluators and the row loop of renderTable, driven by handleSubmit.     *)
(*                                                                         *)
(* Text is a sequence of characters; a character is a one-character        *)
(* string, and the six non-ASCII operator characters are written by their  *)
(* code point ("U+2194" is the one character of the double arrow).         *)
(* A function that may throw returns [ok |-> TRUE, val |-> v] or           *)
(* [ok |-> FALSE, err |-> message].                                        *)
(***************************************************************************)
EXTENDS Integers, Sequences, FiniteSets, TLC

Null == [null |-> TRUE]

Ok(v) == [ok |-> TRUE, val |-> v]

Err(msg) == [ok |-> FALSE, err |-> msg]

SetMin(S) == CHOOSE x \in S : \A y \in S : x <= y

-----------------------------------------------------------------------------
(* Operator registry *)

Operators ==
  [ NOT |-> [sym |-> "NOT", arity |-> 1, prec |-> 5, assoc |-> "right"],
    AND |-> [sym |-> "AND", arity |-> 2, prec |-> 4, assoc |-> "left"],
    XOR |-> [sym |-> "XOR", arity |-> 2, prec |-> 3, assoc |-> "left"],
    OR  |-> [sym |-> "OR",  arity |-> 2, prec |-> 2, assoc |-> "left"],
    IMP |-> [sym |-> "IMP", arity |-> 2, prec |-> 1, assoc |-> "right"],
    IFF |-> [sym |-> "IFF", arity |-> 2, prec |-> 0, assoc |-> "left"] ]

(* The fn field of a unary operator. *)
Fn1(op, a) == ~a

(* The fn field of a binary operator. *)
Fn2(op, a, b) ==
  CASE op = "AND" -> a /\ b
    [] op = "XOR" -> a # b
    [] op = "OR"  -> a \/ b
    [] op = "IMP" -> (~a) \/ b
    [] op = "IFF" -> a = b

OperatorLexemes ==
  << [m |-> <<"<", "=", ">">>, op |-> "IFF"],
     [m |-> <<"<", "-", ">">>, op |-> "IFF"],
     [m |-> <<"U+2194">>,      op |-> "IFF"],
     [m |-> <<"i", "f", "f">>, op |-> "IFF"],
     [m |-> <<"-", ">">>,      op |-> "IMP"],
     [m |-> <<"=", ">">>,      op |-> "IMP"],
     [m |-> <<"U+2192">>,      op |-> "IMP"],
     [m |-> <<"i", "m", "p", "l", "i", "e", "s">>, op |-> "IMP"],
     [m |-> <<"U+2295">>,      op |-> "XOR"],
     [m |-> <<"^">>,           op |-> "XOR"],
     [m |-> <<"x", "o", "r">>, op |-> "XOR"],
     [m |-> <<"U+2227">>,      op |-> "AND"],
     [m |-> <<"&">>,           op |-> "AND"],
     [m |-> <<"a", "n", "d">>, op |-> "AND"],
     [m |-> <<"U+2228">>,      op |-> "OR"],
     [m |-> <<"|">>,           op |-> "OR"],
     [m |-> <<"o", "r">>,      op |-> "OR"],
     [m |-> <<"U+00AC">>,      op |-> "NOT"],
     [m |-> <<"~">>,           op |-> "NOT"],
     [m |-> <<"!">>,           op |-> "NOT"],
     [m |-> <<"n", "o", "t">>, op |-> "NOT"] >>

ConstLexemes ==
  << [k |-> <<"t", "r", "u", "e">>,      v |-> TRUE],
     [k |-> <<"t">>,                     v |-> TRUE],
     [k |-> <<"1">>,                     v |-> TRUE],
     [k |-> <<"f", "a", "l", "s", "e">>, v |-> FALSE],
     [k |-> <<"f">>,                     v |-> FALSE],
     [k |-> <<"0">>,                     v |-> FALSE] >>

-----------------------------------------------------------------------------
(* Character classes *)

LowerCase ==
  << "a", "b", "c", "d", "e", "f", "g", "h", "i", "j", "k", "l", "m",
     "n", "o", "p", "q", "r", "s", "t", "u", "v", "w", "x", "y", "z" >>

UpperCase ==
  << "A", "B", "C", "D", "E", "F", "G", "H", "I", "J", "K", "L", "M",
     "N", "O", "P", "Q", "R", "S", "T", "U", "V", "W", "X", "Y", "Z" >>

Digits == << "0", "1", "2", "3", "4", "5", "6", "7", "8", "9" >>

Range(f) == { f[k] : k \in DOMAIN f }

IndexOf(seq, x) == SetMin({ k \in DOMAIN seq : seq[k] = x })

isLetter(ch) == ch \in Range(LowerCase) \cup Range(UpperCase)

isDigit(ch) == ch \in Range(Digits)

isIdentStart(ch) == isLetter(ch) \/ ch = "_"

isIdentPart(ch) == isLetter(ch) \/ isDigit(ch) \/ ch = "_"

WhiteSpace == { " ", "\t", "\n", "\r" }

(* String.prototype.toLowerCase on one character, then on a string. *)
LowerChar(ch) ==
  IF ch \in Range(UpperCase) THEN LowerCase[IndexOf(UpperCase, ch)] ELSE ch

toLowerCase(w) == [ k \in DOMAIN w |-> LowerChar(w[k]) ]

(* String.prototype.trim *)
trim(s) ==
  LET keep == { k \in DOMAIN s : s[k] \notin WhiteSpace }
  IN  IF keep = {} THEN << >>
      ELSE LET lo == SetMin(keep)
               hi == CHOOSE k \in keep : \A l \in keep : l <= k
           IN  SubSeq(s, lo, hi)

(* s.startsWith(m, idx), idx 1-based here *)
startsWith(s, m, idx) ==
  /\ idx + Len(m) - 1 <= Len(s)
  /\ \A k \in 1..Len(m) : s[idx + k - 1] = m[k]

-----------------------------------------------------------------------------
(* Lexer *)

matchOperatorAt(s, idx) ==
  LET hits == { k \in DOMAIN OperatorLexemes :
                  startsWith(s, OperatorLexemes[k].m, idx) }
  IN  IF hits = {} THEN Null ELSE OperatorLexemes[SetMin(hits)]

(* The end (exclusive) of the maximal run of identifier characters from j. *)
RECURSIVE IdentEnd(_, _)
IdentEnd(s, j) ==
  IF j <= Len(s) /\ isIdentPart(s[j]) THEN IdentEnd(s, j + 1) ELSE j

RECURSIVE DigitEnd(_, _)
DigitEnd(s, j) ==
  IF j <= Len(s) /\ isDigit(s[j]) THEN DigitEnd(s, j + 1) ELSE j

(* The identifier branch of tokenize: the token for the run wordRaw. *)
WordToken(wordRaw) ==
  LET word  == toLowerCase(wordRaw)
      cs    == { k \in DOMAIN ConstLexemes : ConstLexemes[k].k = word }
      asOps == { k \in DOMAIN OperatorLexemes : OperatorLexemes[k].m = word }
  IN  IF cs # {}
        THEN [type |-> "const", value |-> ConstLexemes[SetMin(cs)].v, raw |-> wordRaw]
      ELSE IF asOps # {}
        THEN [type |-> "op", value |-> OperatorLexemes[SetMin(asOps)].op, raw |-> wordRaw]
      ELSE [type |-> "ident", value |-> wordRaw]

(* The while loop of tokenize from position i with the tokens so far. *)
RECURSIVE TokenizeFrom(_, _, _)
TokenizeFrom(s, i, tokens) ==
  IF i > Len(s) THEN Ok(tokens)
  ELSE
    LET ch == s[i]
        op == matchOperatorAt(s, i)
    IN  IF ch \in WhiteSpace THEN TokenizeFrom(s, i + 1, tokens)
        ELSE IF ch = "(" THEN
          TokenizeFrom(s, i + 1, Append(tokens, [type |-> "lparen", value |-> <<"(">>]))
        ELSE IF ch = ")" THEN
          TokenizeFrom(s, i + 1, Append(tokens, [type |-> "rparen", value |-> <<")">>]))
        ELSE IF op # Null THEN
          TokenizeFrom(s, i + Len(op.m),
                       Append(tokens, [type |-> "op", value |-> op.op, raw |-> op.m]))
        ELSE IF isIdentStart(ch) THEN
          LET j == IdentEnd(s, i + 1)
          IN  TokenizeFrom(s, j, Append(tokens, WordToken(SubSeq(s, i, j - 1))))
        ELSE IF isDigit(ch) THEN
          LET j      == DigitEnd(s, i)
              numStr == SubSeq(s, i, j - 1)
          IN  IF numStr = <<"0">> \/ numStr = <<"1">>
                THEN TokenizeFrom(s, j,
                       Append(tokens, [type |-> "const", value |-> (numStr = <<"1">>),
                                       raw |-> numStr]))
                ELSE Err("Unexpected number")
        ELSE Err("Unexpected character")

tokenize(input) == TokenizeFrom(trim(input), 1, << >>)

-----------------------------------------------------------------------------
(* Parser: shunting-yard to postfix *)

(* ShouldPop that pops on equal precedence whatever the associativity. *)
ShouldPopOnEqual(topInfo, opInfo) == topInfo.prec >= opInfo.prec

(* The pop condition of the operator branch: the stack's top against the
   incoming operator. *)
ShouldPop(topInfo, opInfo) ==
  \/ topInfo.prec > opInfo.prec
  \/ (topInfo.prec = opInfo.prec /\ opInfo.assoc = "left")

(* The while loop of the operator branch. *)
RECURSIVE PopOperators(_, _, _)
PopOperators(output, ops, opInfo) ==
  IF ops = << >> THEN [output |-> output, ops |-> ops]
  ELSE
    LET top == ops[Len(ops)]
    IN  IF top.type # "op" THEN [output |-> output, ops |-> ops]
        ELSE IF ShouldPop(Operators[top.value], opInfo)
          THEN PopOperators(Append(output, top), SubSeq(ops, 1, Len(ops) - 1), opInfo)
        ELSE [output |-> output, ops |-> ops]

(* The while loop of the right-parenthesis branch. *)
RECURSIVE PopToLparen(_, _)
PopToLparen(output, ops) ==
  IF ops = << >> THEN [found |-> FALSE, output |-> output, ops |-> ops]
  ELSE
    LET t    == ops[Len(ops)]
        rest == SubSeq(ops, 1, Len(ops) - 1)
    IN  IF t.type = "lparen" THEN [found |-> TRUE, output |-> output, ops |-> rest]
        ELSE PopToLparen(Append(output, t), rest)

(* The final while loop of toRPN. *)
RECURSIVE Drain(_, _)
Drain(output, ops) ==
  IF ops = << >> THEN Ok(output)
  ELSE
    LET t == ops[Len(ops)]
    IN  IF t.type = "lparen" \/ t.type = "rparen" THEN Err("Mismatched parentheses")
        ELSE Drain(Append(output, t), SubSeq(ops, 1, Len(ops) - 1))

(* The for loop of toRPN from token k. *)
RECURSIVE ToRPNFrom(_, _, _, _)
ToRPNFrom(tokens, k, output, ops) ==
  IF k > Len(tokens) THEN Drain(output, ops)
  ELSE
    LET tok == tokens[k]
    IN  IF tok.type = "ident" \/ tok.type = "const" THEN
          ToRPNFrom(tokens, k + 1, Append(output, tok), ops)
        ELSE IF tok.type = "op" THEN
          IF tok.value \notin DOMAIN Operators THEN Err("Unknown operator")
          ELSE LET r == PopOperators(output, ops, Operators[tok.value])
               IN  ToRPNFrom(tokens, k + 1, r.output, Append(r.ops, tok))
        ELSE IF tok.type = "lparen" THEN
          ToRPNFrom(tokens, k + 1, output, Append(ops, tok))
        ELSE IF tok.type = "rparen" THEN
          LET r == PopToLparen(output, ops)
          IN  IF ~r.found THEN Err("Mismatched parentheses: missing (")
              ELSE ToRPNFrom(tokens, k + 1, r.output, r.ops)
        ELSE Err("Unexpected token")

toRPN(tokens) == ToRPNFrom(tokens, 1, << >>, << >>)

-----------------------------------------------------------------------------
(* AST builder *)

makeLeaf(tok, id) ==
  IF tok.type = "ident"
    THEN [id |-> id, type |-> "var", name |-> tok.value]
    ELSE [id |-> id, type |-> "const", value |-> tok.value]

(* The node a unary operator pushes, from the popped stack top. *)
UnaryNode(id, op, a) == [id |-> id, type |-> "op", op |-> op, a |-> a]

(* BinaryNode with the operands in the order they are popped. *)
BinaryNodeSwapped(id, op, stack) ==
  [id |-> id, type |-> "op", op |-> op,
   a |-> stack[Len(stack)], b |-> stack[Len(stack) - 1]]

(* The node a binary operator pushes: b is popped first, then a. *)
BinaryNode(id, op, stack) ==
  [id |-> id, type |-> "op", op |-> op,
   a |-> stack[Len(stack) - 1], b |-> stack[Len(stack)]]

(* The for loop of rpnToAst from token k. *)
RECURSIVE RpnToAstFrom(_, _, _, _)
RpnToAstFrom(rpn, k, nextId, stack) ==
  IF k > Len(rpn) THEN
    IF Len(stack) # 1 THEN Err("Invalid expression: could not build AST")
    ELSE Ok(stack[1])
  ELSE
    LET tok == rpn[k]
    IN  IF tok.type = "ident" \/ tok.type = "const" THEN
          RpnToAstFrom(rpn, k + 1, nextId + 1, Append(stack, makeLeaf(tok, nextId)))
        ELSE IF tok.type = "op" THEN
          IF Operators[tok.value].arity = 1 THEN
            IF Len(stack) < 1
              THEN Err("Invalid expression: missing operand for unary operator")
              ELSE RpnToAstFrom(rpn, k + 1, nextId + 1,
                     Append(SubSeq(stack, 1, Len(stack) - 1),
                            UnaryNode(nextId, tok.value, stack[Len(stack)])))
          ELSE IF Operators[tok.value].arity = 2 THEN
            IF Len(stack) < 2
              THEN Err("Invalid expression: missing operands for binary operator")
              ELSE RpnToAstFrom(rpn, k + 1, nextId + 1,
                     Append(SubSeq(stack, 1, Len(stack) - 2),
                            BinaryNode(nextId, tok.value, stack)))
          ELSE Err("Unsupported operator arity")
        ELSE Err("Unexpected token in AST build")

rpnToAst(rpn) == RpnToAstFrom(rpn, 1, 1, << >>)

-----------------------------------------------------------------------------
(* Rendering and sub-expression collection *)

OpLabel ==
  [ NOT |-> <<"!">>, AND |-> <<"&">>, OR |-> <<"|">>, XOR |-> <<"^">>,
    IMP |-> <<"-", ">">>, IFF |-> <<"<", "-", ">">> ]

(* formatNode without the parentheses around a binary node. *)
RECURSIVE formatNodeBare(_)
formatNodeBare(node) ==
  CASE node.type = "var"   -> node.name
    [] node.type = "const" -> IF node.value THEN <<"T">> ELSE <<"F">>
    [] node.type = "op" ->
         IF node.op = "NOT" THEN OpLabel.NOT \o formatNodeBare(node.a)
         ELSE formatNodeBare(node.a) \o <<" ">> \o OpLabel[node.op] \o <<" ">>
                \o formatNodeBare(node.b)
    [] OTHER -> <<"?">>

RECURSIVE formatNode(_)
formatNode(node) ==
  CASE node.type = "var"   -> node.name
    [] node.type = "const" -> IF node.value THEN <<"T">> ELSE <<"F">>
    [] node.type = "op" ->
         IF node.op = "NOT" THEN
           LET inner       == formatNode(node.a)
               needsParens == node.a.type = "op"
           IN  OpLabel.NOT \o (IF needsParens THEN <<"(">> \o inner \o <<")">> ELSE inner)
         ELSE
           <<"(">> \o formatNode(node.a) \o <<" ">> \o OpLabel[node.op] \o <<" ">>
                   \o formatNode(node.b) \o <<")">>
    [] OTHER -> <<"?">>

(* visit without the seen set: every combinator is recorded. *)
RECURSIVE visitNoDedup(_, _)
visitNoDedup(n, acc) ==
  IF n.type = "op" THEN
    LET acc1 == visitNoDedup(n.a, acc)
        acc2 == IF "b" \in DOMAIN n THEN visitNoDedup(n.b, acc1) ELSE acc1
    IN  [order |-> Append(acc2.order, [node |-> n, label |-> formatNode(n)]),
         seen  |-> acc2.seen]
  ELSE acc

(* The closure visit of collectSubexpressions; acc holds order and seen. *)
RECURSIVE visit(_, _)
visit(n, acc) ==
  IF n.type = "op" THEN
    LET acc1  == visit(n.a, acc)
        acc2  == IF "b" \in DOMAIN n THEN visit(n.b, acc1) ELSE acc1
        label == formatNode(n)
    IN  IF label \notin acc2.seen
          THEN [order |-> Append(acc2.order, [node |-> n, label |-> label]),
                seen  |-> acc2.seen \cup {label}]
          ELSE acc2
  ELSE acc

collectSubexpressions(root) == visit(root, [order |-> << >>, seen |-> {}]).order

-----------------------------------------------------------------------------
(* Evaluators *)

EmptyCache == [ id \in {} |-> FALSE ]

(* cache.set(node.id, val) *)
CacheSet(cache, id, val) ==
  [ k \in DOMAIN cache \cup {id} |-> IF k = id THEN val ELSE cache[k] ]

(* Returns [ok, val, cache]: the value and the cache after the call. *)
RECURSIVE computeValue(_, _, _)
computeValue(node, env, cache) ==
  IF node.id \in DOMAIN cache
    THEN [ok |-> TRUE, val |-> cache[node.id], cache |-> cache]
  ELSE IF node.type = "var" THEN
    IF node.name \notin DOMAIN env THEN Err("Unbound variable")
    ELSE [ok |-> TRUE, val |-> env[node.name],
          cache |-> CacheSet(cache, node.id, env[node.name])]
  ELSE IF node.type = "const" THEN
    [ok |-> TRUE, val |-> node.value, cache |-> CacheSet(cache, node.id, node.value)]
  ELSE IF node.type = "op" THEN
    IF Operators[node.op].arity = 1 THEN
      LET ra == computeValue(node.a, env, cache)
      IN  IF ~ra.ok THEN ra
          ELSE LET val == Fn1(node.op, ra.val)
               IN  [ok |-> TRUE, val |-> val, cache |-> CacheSet(ra.cache, node.id, val)]
    ELSE IF Operators[node.op].arity = 2 THEN
      LET ra == computeValue(node.a, env, cache)
      IN  IF ~ra.ok THEN ra
          ELSE LET rb == computeValue(node.b, env, ra.cache)
               IN  IF ~rb.ok THEN rb
                   ELSE LET val == Fn2(node.op, ra.val, rb.val)
                        IN  [ok |-> TRUE, val |-> val,
                             cache |-> CacheSet(rb.cache, node.id, val)]
    ELSE Err("Unsupported operator arity")
  ELSE Err("Unknown node type")

(* The for loop of evalRPN from token k. *)
RECURSIVE EvalRPNFrom(_, _, _, _)
EvalRPNFrom(rpn, env, k, stack) ==
  IF k > Len(rpn) THEN
    IF Len(stack) # 1 THEN Err("Invalid expression: leftover values after evaluation")
    ELSE Ok(stack[1])
  ELSE
    LET tok == rpn[k]
    IN  IF tok.type = "ident" THEN
          IF tok.value \notin DOMAIN env THEN Err("Unbound variable")
          ELSE EvalRPNFrom(rpn, env, k + 1, Append(stack, env[tok.value]))
        ELSE IF tok.type = "const" THEN
          EvalRPNFrom(rpn, env, k + 1, Append(stack, tok.value))
        ELSE IF tok.type = "op" THEN
          IF Operators[tok.value].arity = 1 THEN
            IF Len(stack) < 1
              THEN Err("Invalid expression: missing operand for unary operator")
              ELSE EvalRPNFrom(rpn, env, k + 1,
                     Append(SubSeq(stack, 1, Len(stack) - 1),
                            Fn1(tok.value, stack[Len(stack)])))
          ELSE IF Operators[tok.value].arity = 2 THEN
            IF Len(stack) < 2
              THEN Err("Invalid expression: missing operands for binary operator")
              ELSE EvalRPNFrom(rpn, env, k + 1,
                     Append(SubSeq(stack, 1, Len(stack) - 2),
                            Fn2(tok.value, stack[Len(stack) - 1], stack[Len(stack)])))
          ELSE Err("Unsupported operator arity")
        ELSE Err("Unexpected token in evaluation")

evalRPN(rpn, env) == EvalRPNFrom(rpn, env, 1, << >>)

-----------------------------------------------------------------------------
(* Variables of an expression *)

(* The primary collation weight of an identifier character: underscore,
   then digits, then letters without regard to case. *)
CollationRank(ch) ==
  IF ch = "_" THEN 0
  ELSE IF isDigit(ch) THEN IndexOf(Digits, ch)
  ELSE Len(Digits) + IndexOf(LowerCase, LowerChar(ch))

(* The first position from k at which ranks differ: -1, 0 or 1. *)
RECURSIVE PrimaryCompare(_, _, _)
PrimaryCompare(x, y, k) ==
  IF k > Len(x) /\ k > Len(y) THEN 0
  ELSE IF k > Len(x) THEN -1
  ELSE IF k > Len(y) THEN 1
  ELSE IF CollationRank(x[k]) < CollationRank(y[k]) THEN -1
  ELSE IF CollationRank(x[k]) > CollationRank(y[k]) THEN 1
  ELSE PrimaryCompare(x, y, k + 1)

(* a.localeCompare(b) on identifiers: letters first, case as the tie-break
   with lower case before upper case. *)
localeCompare(x, y) ==
  LET p    == PrimaryCompare(x, y, 1)
      diff == { k \in DOMAIN x : x[k] # y[k] }
  IN  IF p # 0 THEN p
      ELSE IF diff = {} THEN 0
      ELSE IF x[SetMin(diff)] \in Range(LowerCase) THEN -1 ELSE 1

RECURSIVE SortNames(_)
SortNames(S) ==
  IF S = {} THEN << >>
  ELSE LET m == CHOOSE x \in S : \A y \in S : localeCompare(x, y) <= 0
       IN  <<m>> \o SortNames(S \ {m})

uniqueVariables(tokens) ==
  SortNames({ tokens[k].value : k \in { l \in DOMAIN tokens : tokens[l].type = "ident" } })

-----------------------------------------------------------------------------
(* Row enumeration of renderTable *)

RECURSIVE Pow2(_)
Pow2(n) == IF n = 0 THEN 1 ELSE 2 * Pow2(n - 1)

(* (i >> k) & 1 *)
Bit(i, k) == (i \div Pow2(k)) % 2

(* RowValue with the first variable as the least significant bit. *)
RowValueLsbFirst(i, j, n, order) ==
  LET bit == Bit(i, j)
  IN  IF order = "F_FIRST" THEN bit = 1 ELSE bit = 0

(* The value of the variable at sorted position j (0-based) in row i. *)
RowValue(i, j, n, order) ==
  LET bit == Bit(i, n - j - 1)
  IN  IF order = "F_FIRST" THEN bit = 1 ELSE bit = 0

(* The env object the inner loop fills for row i. *)
RowEnv(vs, i, order) ==
  [ name \in Range(vs) |->
      LET js == { j \in DOMAIN vs : vs[j] = name }
      IN  RowValue(i, (CHOOSE j \in js : \A l \in js : l <= j) - 1, Len(vs), order) ]

(* The steps loop of a row: every step's value, sharing one cache. *)
RECURSIVE StepValues(_, _, _, _, _)
StepValues(sts, k, env, cache, acc) ==
  IF k > Len(sts) THEN Ok(acc)
  ELSE LET r == computeValue(sts[k].node, env, cache)
       IN  IF ~r.ok THEN Err(r.err)
           ELSE StepValues(sts, k + 1, env, r.cache, Append(acc, r.val))

-----------------------------------------------------------------------------
(* The page: the form's fields, what handleSubmit has computed so far, and
   what the page shows.  The cells' text (T/F or 1/0) and the row index
   column are presentation of the values kept here. *)

VARIABLES
  input,      \* the expression field's text
  showSteps,  \* the showSteps checkbox
  rowOrder,   \* the rowOrder select's value
  pc,         \* where handleSubmit is
  tokens, vars, rpn,    \* handleSubmit's locals
  ast, steps, thead,    \* renderTable's locals
  i, fragment,          \* the row loop's index and the rows built so far
  container,  \* the table container: no table, or one table
  error,      \* the error element: hidden and textContent
  summary     \* the summary element: Null when hidden

vars_ == << input, showSteps, rowOrder, pc, tokens, vars, rpn, ast, steps, thead,
            i, fragment, container, error, summary >>

VarLimit == 12

RowOrders == { "F_FIRST", "T_FIRST" }

(* The error element after clearError. *)
NoError == [hidden |-> TRUE, textContent |-> ""]

(* The page after loading, with the form filled in. *)
InitWith(Texts, StepChoices, OrderChoices) ==
  /\ input \in Texts
  /\ showSteps \in StepChoices
  /\ rowOrder \in OrderChoices
  /\ pc = "submit"
  /\ tokens = << >> /\ vars = << >> /\ rpn = << >>
  /\ ast = Null /\ steps = << >> /\ thead = << >>
  /\ i = 0 /\ fragment = << >>
  /\ container = << >>
  /\ error = NoError
  /\ summary = Null

(* showError and the return (or the end of the catch) that follows it. *)
Fail(msg) == error' = [hidden |-> FALSE, textContent |-> msg] /\ pc' = "done"

(* handleSubmit up to tokenize: clearError, the empty check, tokenize. *)
Tokenize ==
  /\ pc = "submit"
  /\ LET expr == trim(input)
         r    == tokenize(expr)
     IN  IF expr = << >> THEN
           /\ Fail("Please enter an expression.")
           /\ UNCHANGED tokens
         ELSE IF ~r.ok THEN
           /\ Fail(r.err)
           /\ UNCHANGED tokens
         ELSE
           /\ tokens' = r.val
           /\ error' = NoError
           /\ pc' = "tokenized"
  /\ UNCHANGED << input, showSteps, rowOrder, vars, rpn, ast, steps, thead,
                  i, fragment, container, summary >>

(* handleSubmit: uniqueVariables, the variable limit, toRPN. *)
ToRPN ==
  /\ pc = "tokenized"
  /\ LET vs == uniqueVariables(tokens)
         r  == toRPN(tokens)
     IN  /\ vars' = vs
         /\ IF Len(vs) > VarLimit THEN
              /\ Fail("Too many variables")
              /\ UNCHANGED rpn
            ELSE IF ~r.ok THEN
              /\ Fail(r.err)
              /\ UNCHANGED rpn
            ELSE
              /\ rpn' = r.val
              /\ pc' = "parsed"
              /\ UNCHANGED error
  /\ UNCHANGED << input, showSteps, rowOrder, tokens, ast, steps, thead,
                  i, fragment, container, summary >>

(* renderTable before the row loop: the container is emptied, the header is
   built, with the steps' labels when showSteps is on. *)
RenderHeader ==
  /\ pc = "parsed"
  /\ container' = << >>
  /\ LET r == rpnToAst(rpn)
     IN  IF showSteps /\ ~r.ok THEN
           /\ Fail(r.err)
           /\ UNCHANGED << ast, steps, thead, i, fragment >>
         ELSE
           /\ ast' = IF showSteps THEN r.val ELSE Null
           /\ steps' = IF showSteps THEN collectSubexpressions(r.val) ELSE << >>
           /\ thead' = vars \o [ k \in DOMAIN steps' |-> steps'[k].label ]
                            \o << <<"R", "e", "s", "u", "l", "t">> >>
           /\ i' = 0
           /\ fragment' = << >>
           /\ pc' = "rows"
           /\ UNCHANGED error
  /\ UNCHANGED << input, showSteps, rowOrder, tokens, vars, rpn, summary >>

(* RowResult with a catch that leaves the row true. *)
RowResultTrueOnError(env) ==
  LET r == evalRPN(rpn, env)
  IN  IF ~r.ok THEN TRUE ELSE r.val

(* The result column of a row: the try block and its catch. *)
RowResult(env) ==
  LET built == IF showSteps /\ ast = Null THEN rpnToAst(rpn) ELSE Ok(ast)
      r     == evalRPN(rpn, env)
  IN  IF ~built.ok THEN FALSE
      ELSE IF ~r.ok THEN FALSE
      ELSE r.val

(* One iteration of the row loop. *)
RenderRow ==
  /\ pc = "rows"
  /\ i < Pow2(Len(vars))
  /\ LET env   == RowEnv(vars, i, rowOrder)
         value == RowResult(env)
         svals == IF showSteps THEN StepValues(steps, 1, env, EmptyCache, << >>)
                  ELSE Ok(<< >>)
     IN  IF ~svals.ok THEN
           /\ Fail(svals.err)
           /\ UNCHANGED << i, fragment >>
         ELSE
           /\ fragment' = Append(fragment,
                [ env    |-> env,
                  cells  |-> [ j \in DOMAIN vars |-> env[vars[j]] ],
                  steps  |-> svals.val,
                  result |-> value ])
           /\ i' = i + 1
           /\ UNCHANGED << pc, error >>
  /\ UNCHANGED << input, showSteps, rowOrder, tokens, vars, rpn, ast, steps, thead,
                  container, summary >>

(* After the row loop: the table is put in the container, and handleSubmit
   updates the summary. *)
RenderDone ==
  /\ pc = "rows"
  /\ i >= Pow2(Len(vars))
  /\ container' = << [head |-> thead, body |-> fragment] >>
  /\ summary' = [variables |-> vars, rows |-> Pow2(Len(vars)), expression |-> trim(input)]
  /\ pc' = "done"
  /\ UNCHANGED << input, showSteps, rowOrder, tokens, vars, rpn, ast, steps, thead,
                  i, fragment, error >>

Next == Tokenize \/ ToRPN \/ RenderHeader \/ RenderRow \/ RenderDone

-----------------------------------------------------------------------------
(* The expressions submitted *)

MaxTokens == 4

MaxWFTokens == 6

MaxVars == 10

MaxTail == 2

(* Lexemes joined by single spaces. *)
Join(p, w) == IF p = << >> THEN w ELSE p \o <<" ">> \o w

Lexicon == { <<"a">>, <<"b">>, <<"!">>, <<"&">>, <<"-", ">">>, <<"(">>, <<")">> }

(* Every text of exactly n lexemes of the lexicon. *)
RECURSIVE Phrases(_)
Phrases(n) ==
  IF n = 0 THEN { << >> }
  ELSE { Join(p, w) : p \in Phrases(n - 1), w \in Lexicon }

Texts == UNION { Phrases(n) : n \in 0..MaxTokens }

Operands == { <<"a">>, <<"b">>, <<"1">> }

BinarySigns == { <<"&">>, <<"U+2228">>, <<"x", "o", "r">>, <<"-", ">">>, <<"<", "=", ">">> }

(* The well-formed infix texts of exactly n lexemes, from those of fewer
   lexemes (shorter[k] holds the texts of k lexemes):
   E ::= operand | ! E | ( E ) | E binary E *)
WFPhrases(n, shorter) ==
  IF n = 1 THEN Operands
  ELSE { Join(<<"!">>, e) : e \in shorter[n - 1] }
       \cup (IF n >= 3 THEN { Join(Join(<<"(">>, e), <<")">>) : e \in shorter[n - 2] }
                       ELSE { })
       \cup UNION { { Join(Join(l, o), r) :
                        l \in shorter[k], o \in BinarySigns, r \in shorter[n - 1 - k] }
                    : k \in 1..(n - 2) }

(* The texts of 1, 2, ... max lexemes. *)
RECURSIVE WFLevels(_, _)
WFLevels(max, shorter) ==
  IF Len(shorter) >= max THEN shorter
  ELSE WFLevels(max, Append(shorter, WFPhrases(Len(shorter) + 1, shorter)))

WFTexts == UNION Range(WFLevels(MaxWFTokens, << >>))

VarNames == << <<"q">>, <<"p">>, <<"s">>, <<"r">>, <<"v">>, <<"u">>, <<"x">>, <<"w">>,
               <<"z">>, <<"y">>, <<"b">>, <<"a">> >>

(* The conjunction of the first n variable names; the constant 1 for none. *)
RECURSIVE ConjText(_)
ConjText(n) ==
  IF n = 0 THEN <<"1">>
  ELSE IF n = 1 THEN VarNames[1]
  ELSE Join(Join(ConjText(n - 1), <<"&">>), VarNames[n])

ConjTexts == { ConjText(n) : n \in 0..MaxVars }

OperatorWords ==
  { OperatorLexemes[k].m : k \in { l \in DOMAIN OperatorLexemes :
                                     isLetter(OperatorLexemes[l].m[1]) } }

TailChars == { "X", "y", "1", "_" }

RECURSIVE Tails(_)
Tails(n) ==
  IF n = 0 THEN { << >> }
  ELSE { t \o <<c>> : t \in Tails(n - 1), c \in TailChars }

(* An operator word with up to MaxTail identifier characters after it. *)
WordTexts == { w \o t : w \in OperatorWords, t \in UNION { Tails(n) : n \in 0..MaxTail } }

Init == InitWith(Texts, BOOLEAN, RowOrders)

Spec == Init /\ [][Next]_vars_

InitWF == InitWith(WFTexts, {TRUE}, {"F_FIRST"})

SpecWF == InitWF /\ [][Next]_vars_

InitRows == InitWith(ConjTexts, BOOLEAN, RowOrders)

SpecRows == InitRows /\ [][Next]_vars_

InitLex == InitWith(WordTexts, BOOLEAN, RowOrders)

SpecLex == InitLex /\ [][Next]_vars_

-----------------------------------------------------------------------------
(* Vocabulary of the properties *)

(* Every assignment of booleans to the names of vs. *)
Assignments(names) == [ names -> BOOLEAN ]

(* A node and every node below it. *)
RECURSIVE Nodes(_)
Nodes(n) ==
  {n} \cup (IF n.type = "op"
              THEN Nodes(n.a) \cup (IF "b" \in DOMAIN n THEN Nodes(n.b) ELSE {})
              ELSE {})

Combinators(n) == { m \in Nodes(n) : m.type = "op" }

FreeVars(n) == { m.name : m \in { l \in Nodes(n) : l.type = "var" } }

(* handleSubmit has called renderTable and the header was built. *)
Rendering == pc = "rows" \/ (pc = "done" /\ container # << >>)

(* toRPN has returned: rpn holds the postfix sequence of the tokens. *)
HasRpn == pc = "parsed" \/ Rendering

(* handleSubmit has reached its call of renderTable. *)
RenderTableCalled ==
  \/ HasRpn
  \/ (pc = "done" /\ tokens # << >> /\ Len(vars) <= VarLimit /\ toRPN(tokens).ok)

IsOperand(tok) == tok.type = "ident" \/ tok.type = "const"

IsBinary(tok) == tok.type = "op" /\ tok.value # "NOT"

IsNot(tok) == tok.type = "op" /\ tok.value = "NOT"

(* The grammar of infix expressions:
   E ::= operand | NOT E | ( E ) | E binary E *)
RECURSIVE WellFormed(_)
WellFormed(toks) ==
  LET n == Len(toks)
  IN  \/ n = 1 /\ IsOperand(toks[1])
      \/ n >= 2 /\ IsNot(toks[1]) /\ WellFormed(SubSeq(toks, 2, n))
      \/ n >= 3 /\ toks[1].type = "lparen" /\ toks[n].type = "rparen"
                /\ WellFormed(SubSeq(toks, 2, n - 1))
      \/ \E k \in 2..(n - 1) :
            /\ IsBinary(toks[k])
            /\ WellFormed(SubSeq(toks, 1, k - 1))
            /\ WellFormed(SubSeq(toks, k + 1, n))

(* The precedence table of the specification, and its right-associative
   operators. *)
RefPrec == [ NOT |-> 5, AND |-> 4, XOR |-> 3, OR |-> 2, IMP |-> 1, IFF |-> 0 ]

RefRightAssoc == { "NOT", "IMP" }

(* The number of parentheses open before token k. *)
Depth(toks, k) ==
  Cardinality({ l \in 1..(k - 1) : toks[l].type = "lparen" })
    - Cardinality({ l \in 1..(k - 1) : toks[l].type = "rparen" })

(* The binary operators outside every parenthesis and in infix position. *)
TopBinary(toks) ==
  { k \in 2..(Len(toks) - 1) :
      /\ IsBinary(toks[k])
      /\ Depth(toks, k) = 0
      /\ (IsOperand(toks[k - 1]) \/ toks[k - 1].type = "rparen") }

(* The operator a well-formed expression splits at: the loosest one, the last
   of its kind when it associates to the left, the first when to the right. *)
MainOperator(toks) ==
  LET top   == TopBinary(toks)
      low   == { k \in top : \A l \in top : RefPrec[toks[k].value] <= RefPrec[toks[l].value] }
      first == CHOOSE k \in low : \A l \in low : k <= l
      last  == CHOOSE k \in low : \A l \in low : l <= k
  IN  IF toks[first].value \in RefRightAssoc THEN first ELSE last

(* The value of a well-formed expression grouped by the table. *)
RECURSIVE RefEval(_, _)
RefEval(toks, env) ==
  LET n == Len(toks)
  IN  IF TopBinary(toks) # {} THEN
        LET k == MainOperator(toks)
        IN  Fn2(toks[k].value, RefEval(SubSeq(toks, 1, k - 1), env),
                               RefEval(SubSeq(toks, k + 1, n), env))
      ELSE IF IsNot(toks[1]) THEN ~RefEval(SubSeq(toks, 2, n), env)
      ELSE IF toks[1].type = "lparen" THEN RefEval(SubSeq(toks, 2, n - 1), env)
      ELSE IF toks[1].type = "ident" THEN env[toks[1].value]
      ELSE toks[1].value

-----------------------------------------------------------------------------
(* C1: strategy agreement.  Whenever toRPN and then rpnToAst succeed on the
   tokens, computeValue on the root with an empty cache and evalRPN on the
   postfix sequence both return, and return the same boolean, under every
   assignment of the expression's variables. *)
C1_StrategyAgreement ==
  (HasRpn /\ rpnToAst(rpn).ok) =>
    \A env \in Assignments(Range(vars)) :
      LET byNode == computeValue(rpnToAst(rpn).val, env, EmptyCache)
          byRpn  == evalRPN(rpn, env)
      IN  byNode.ok /\ byRpn.ok /\ byNode.val = byRpn.val

(* A finished table of an implication between two variables, shown with its
   steps: some row is true and some row is false. *)
C1_Witness ==
  /\ pc = "done" /\ error.hidden /\ showSteps
  /\ Len(vars) = 2
  /\ ast # Null
  /\ Len(tokens) = 3 /\ IsBinary(tokens[2])
  /\ ast.type = "op" /\ ast.op = "IMP"
  /\ \E k, l \in DOMAIN fragment : fragment[k].result /\ ~fragment[l].result

-----------------------------------------------------------------------------
(* The number a row of cells spells in binary, first cell most significant. *)
RECURSIVE BinaryNumber(_)
BinaryNumber(bits) ==
  IF bits = << >> THEN 0
  ELSE 2 * BinaryNumber(SubSeq(bits, 1, Len(bits) - 1))
         + (IF bits[Len(bits)] THEN 1 ELSE 0)

Negated(bits) == [ k \in DOMAIN bits |-> ~bits[k] ]

(* C5: row enumeration.  The row loop emits the rows in index order, at most
   2^n of them and exactly 2^n in a finished table.  The variables are in
   ascending order.  Read as a binary number with the first variable as the
   most significant digit, the cells of row i spell i under F_FIRST, and
   their negations spell i under any other order; so no two rows carry the
   same assignment, and row 0 is all false under F_FIRST and all true
   otherwise. *)
C5_RowEnumeration ==
  Rendering =>
    LET n == Len(vars)
    IN  /\ Len(fragment) = i /\ i <= Pow2(n)
        /\ pc = "done" => Len(container[1].body) = Pow2(n)
        /\ \A j, k \in DOMAIN vars : j < k => localeCompare(vars[j], vars[k]) < 0
        /\ \A r \in DOMAIN fragment :
             /\ Len(fragment[r].cells) = n
             /\ \A j \in 1..n : fragment[r].env[vars[j]] = fragment[r].cells[j]
             /\ IF rowOrder = "F_FIRST"
                  THEN BinaryNumber(fragment[r].cells) = r - 1
                  ELSE BinaryNumber(Negated(fragment[r].cells)) = r - 1
        /\ Cardinality({ fragment[r].cells : r \in DOMAIN fragment }) = Len(fragment)
        /\ fragment # << >> =>
             \A j \in 1..n : fragment[1].cells[j] = (rowOrder # "F_FIRST")

(* A finished table over at least three variables in T_FIRST order. *)
C5_Witness ==
  /\ pc = "done" /\ container # << >>
  /\ rowOrder = "T_FIRST"
  /\ Len(vars) >= 3
  /\ Len(container[1].body) = Pow2(Len(vars))

-----------------------------------------------------------------------------
(* C7: collectSubexpressions lists combinators only, no label twice, operands
   before their combinator: every combinator of the tree has its label in the
   list, the label of each combinator operand of a listed node stands earlier
   in the list, and a combinator root is the last entry. *)
C7_SubexpressionOrder ==
  (Rendering /\ showSteps) =>
    /\ \A k \in DOMAIN steps :
         /\ steps[k].node.type = "op"
         /\ steps[k].node \in Combinators(ast)
         /\ steps[k].label = formatNode(steps[k].node)
         /\ \A o \in { steps[k].node.a }
                       \cup (IF "b" \in DOMAIN steps[k].node THEN { steps[k].node.b } ELSE {}) :
              o.type = "op" => \E l \in 1..(k - 1) : steps[l].label = formatNode(o)
    /\ \A k, l \in DOMAIN steps : k # l => steps[k].label # steps[l].label
    /\ \A m \in Combinators(ast) : \E k \in DOMAIN steps : steps[k].label = formatNode(m)
    /\ ast.type = "op" => (steps # << >> /\ steps[Len(steps)].node = ast)

(* A tree with two combinators of one label: the list is shorter than the
   tree has combinators. *)
C7_Witness ==
  /\ Rendering /\ showSteps
  /\ Len(steps) >= 2
  /\ Cardinality(Combinators(ast)) > Len(steps)

-----------------------------------------------------------------------------
(* C8: per-row failure absorption.  With the steps off, once toRPN has
   returned, no error is shown; a row for whose assignment evalRPN raises is
   emitted with the result false, and a row for which it returns carries the
   value returned; the row loop goes on to the next index, and the finished
   table has exactly 2^n rows. *)
C8_RowFailureAbsorbed ==
  (~showSteps /\ RenderTableCalled) =>
    /\ error.hidden
    /\ pc = "done" => (container # << >> /\ Len(container[1].body) = Pow2(Len(vars)))
    /\ Rendering =>
         /\ Len(fragment) = i
         /\ \A r \in DOMAIN fragment :
              LET e == evalRPN(rpn, fragment[r].env)
              IN  fragment[r].result = (IF e.ok THEN e.val ELSE FALSE)

(* A finished table of two or more rows, every one of which raised. *)
C8_Witness ==
  /\ pc = "done" /\ ~showSteps /\ container # << >>
  /\ Len(container[1].body) >= 2
  /\ \A r \in DOMAIN container[1].body : ~evalRPN(rpn, container[1].body[r].env).ok

-----------------------------------------------------------------------------
(* C3: a missing operand is reported.  When the expression is an operand
   followed by a binary operator and nothing more, as in "a & ", handleSubmit
   ends with the error shown and no table in the container, whatever the
   steps option and the row order. *)
C3_MissingOperandReported ==
  (pc = "done" /\ Len(tokens) = 2 /\ IsOperand(tokens[1]) /\ IsBinary(tokens[2])) =>
    /\ ~error.hidden
    /\ container = << >>

-----------------------------------------------------------------------------
(* C10: arity is validated in context.  Whenever toRPN and then rpnToAst
   succeed on the tokens, the tokens are a well-formed infix expression. *)
C10_OnlyWellFormedAccepted ==
  (HasRpn /\ rpnToAst(rpn).ok) => WellFormed(tokens)

-----------------------------------------------------------------------------
(* C9: precedence and associativity.  For a well-formed infix expression the
   postfix sequence of toRPN evaluates, under every assignment, to the value
   of the expression grouped by the table NOT 5, AND 4, XOR 3, OR 2, IMP 1,
   IFF 0, with NOT and IMP associating to the right and the others to the
   left. *)
C9_PrecedenceGrouping ==
  (HasRpn /\ WellFormed(tokens)) =>
    \A env \in Assignments(Range(vars)) :
      LET e == evalRPN(rpn, env)
      IN  e.ok /\ e.val = RefEval(tokens, env)

(* x -> y -> x with both variables false: true grouped to the right, false
   grouped to the left. *)
C9_Witness ==
  /\ pc = "parsed"
  /\ Len(tokens) = 5 /\ Len(vars) = 2
  /\ tokens[2].type = "op" /\ tokens[2].value = "IMP"
  /\ tokens[4].type = "op" /\ tokens[4].value = "IMP"
  /\ tokens[1] = tokens[5]
  /\ evalRPN(rpn, [ v \in Range(vars) |-> FALSE ]) = Ok(TRUE)

-----------------------------------------------------------------------------
(* C6: round trip through rendering.  For every node of the tree, the label
   formatNode gives it tokenizes and parses, and the postfix sequence
   evaluates under every assignment of the node's variables to the value
   computeValue gives the node. *)
C6_RenderRoundTrip ==
  (Rendering /\ showSteps) =>
    \A n \in Nodes(ast) :
      LET toks == tokenize(formatNode(n))
          post == toRPN(toks.val)
      IN  /\ toks.ok
          /\ post.ok
          /\ \A env \in Assignments(FreeVars(n)) :
               LET e == evalRPN(post.val, env)
               IN  e.ok /\ e.val = computeValue(n, env, EmptyCache).val

(* A tree with the negation of an implication, and a constant, in it. *)
C6_Witness ==
  /\ Rendering /\ showSteps
  /\ \E n \in Nodes(ast) :
       n.type = "op" /\ n.op = "NOT" /\ n.a.type = "op" /\ n.a.op = "IMP"
  /\ \E n \in Nodes(ast) : n.type = "const"

-----------------------------------------------------------------------------
(* C4: the steps of !(a & b).  With the steps on, the step labels of
   "!(a & b)" are "(a & b)" and then "!(a & b)": the negation of a combinator
   is labelled with one pair of parentheses around the operand. *)
C4_NegationLabel ==
  (Rendering /\ showSteps
     /\ tokens = tokenize(<<"!", "(", "a", " ", "&", " ", "b", ")">>).val) =>
    [ k \in DOMAIN steps |-> steps[k].label ]
      = << <<"(", "a", " ", "&", " ", "b", ")">>,
           <<"!", "(", "a", " ", "&", " ", "b", ")">> >>

-----------------------------------------------------------------------------
(* C2: operator words are whole words.  When the expression is one run of
   identifier characters that starts with an operator word and goes on after
   it, tokenize returns one identifier token, the whole run, and no operator
   token. *)
C2_OperatorWordsWhole ==
  (pc # "submit"
     /\ \A k \in DOMAIN input : isIdentPart(input[k])
     /\ \E w \in OperatorWords :
          Len(input) > Len(w) /\ toLowerCase(SubSeq(input, 1, Len(w))) = w) =>
    /\ tokenize(input).ok
    /\ tokenize(input).val = << [type |-> "ident", value |-> input] >>
    /\ (pc # "done" \/ error.hidden) => tokens = << [type |-> "ident", value |-> input] >>

=============================================================================
